---- MODULE Spec2Model ----
(***************************************************************************)
(* Google Drive Folder duplicator (src/src/Code.js, lines 1-615; lines     *)
(* 617-928 of the file repeat an older revision of the same functions,     *)
(* without stages, tokens, triggers or logs, and are not modelled).        *)
(*                                                                         *)
(* The model covers the spreadsheet-driven orchestrator (startCopy,        *)
(* setupJob, verifyCopy, resetMemory), the two resumable walkers           *)
(* (processQueue, processVerifyQueue), the file based checkpoint store     *)
(* (saveState, loadState, clearState) and the resume triggers.             *)
(*                                                                         *)
(* Remote collaborators are modelled by what the code observes of them:    *)
(*   - the source tree is one of a few fixed trees (Trees), listed in a    *)
(*     fixed order; a continuation token is the number of items the        *)
(*     iterator has already handed out;                                    *)
(*   - the destination Drive is the sequence `dest` of created folders;    *)
(*   - Date.now() - startTime > TIME_LIMIT_MS is the flag `expired`, which *)
(*     the environment may raise at any moment of an execution;            *)
(*   - a remote call that throws is an injected fault (at most MaxFaults). *)
(***************************************************************************)
EXTENDS Integers, Sequences, FiniteSets, TLC

\* ------------------------------------------------------------------------
\* Bounds of the model
\* ------------------------------------------------------------------------
NTrees == 4        \* source tree shapes enumerated by Init
NRows == 2         \* job rows of the sheet (rows 2 .. NRows + 1)
MaxFaults == 2     \* remote failures injected in one behaviour
MaxVerify == 1     \* verifyCopy jobs started in one behaviour

\* ------------------------------------------------------------------------
\* The source trees.  Folder 1 is the root; name[f], files[f] and kids[f]
\* are the name of folder f and its files and subfolders in listing order.
\* ------------------------------------------------------------------------
Trees ==
  << \* 1: F{f1, f2, D1{f3}}
     [name  |-> <<"F", "D1">>,
      files |-> << <<"f1", "f2">>, <<"f3">> >>,
      kids  |-> << <<2>>, <<>> >>],
     \* 2: R{f1, E1{}, E2{}}
     [name  |-> <<"R", "E1", "E2">>,
      files |-> << <<"f1">>, <<>>, <<>> >>,
      kids  |-> << <<2, 3>>, <<>>, <<>> >>],
     \* 3: R{a, sub1{b}, sub2{c}}
     [name  |-> <<"R", "sub1", "sub2">>,
      files |-> << <<"a">>, <<"b">>, <<"c">> >>,
      kids  |-> << <<2, 3>>, <<>>, <<>> >>],
     \* 4: R{x, x, D{y}, D{z}}  (two files and two subfolders of one name)
     [name  |-> <<"R", "D", "D">>,
      files |-> << <<"x", "x">>, <<"y">>, <<"z">> >>,
      kids  |-> << <<2, 3>>, <<>>, <<>> >>],
     \* 5: R{A{B{f}}}
     [name  |-> <<"R", "A", "B">>,
      files |-> << <<>>, <<>>, <<"f">> >>,
      kids  |-> << <<2>>, <<3>>, <<>> >>] >>

RootId == 1        \* id of the source root folder named by the job rows
Rows == 2 .. (NRows + 1)

VARIABLES
  tree,         \* index in Trees of the source tree
  rows,         \* sheet: row -> [src, status, url, verif]
  log,          \* "Logs" sheet: sequence of [row, type, name]
  dest,         \* destination Drive: id -> [name, parent, files]
  ck,           \* checkpoint store: [prop, alive, data]
  triggers,     \* number of pending 'startCopy' triggers
  walker,       \* "none" | "copy" | "verify": the walker in execution
  pc,           \* position of the walker in its loop
  queue,        \* in-memory queue of the walker
  it,           \* items the open iterator has handed out
  row,          \* rowIndex of the walker
  totalCopied,  \* local of processQueue
  checked,      \* local of processVerifyQueue
  mismatches,   \* local of processVerifyQueue
  st,           \* the counters held by the `state` object of processVerifyQueue
  expired,      \* Date.now() - startTime > CONFIG.TIME_LIMIT_MS
  staleTok,     \* the backend no longer accepts the tokens issued so far
  faults,       \* failures injected so far
  verifies,     \* verifyCopy jobs started so far
  last,         \* how the last execution ended
  interrupted   \* the job in the checkpoint or in execution has been paused

vars == <<tree, rows, log, dest, ck, triggers, walker, pc, queue, it, row,
          totalCopied, checked, mismatches, st, expired, staleTok, faults,
          verifies, last, interrupted>>

walkVars == <<walker, pc, queue, it, row, totalCopied, checked, mismatches,
              st, expired>>

\* ------------------------------------------------------------------------
\* Values
\* ------------------------------------------------------------------------
NoToken == 0 - 1
BadId == 99        \* a source id that DriveApp.getFolderById cannot open

Cell(t, n) == [tag |-> t, n |-> n, m |-> 0]
Blank == Cell("", 0)

Task(s, d) ==
  [sourceId |-> s, destId |-> d, stage |-> "FILES",
   fileToken |-> NoToken, folderToken |-> NoToken]

NoCounters == [checked |-> 0, mismatches |-> 0]

Null ==
  [type |-> "NONE", queue |-> <<>>, rowIndex |-> 0, totalCopied |-> 0,
   checked |-> 0, mismatches |-> 0]

CopyState(q, r, n) ==
  [type |-> "COPY", queue |-> q, rowIndex |-> r, totalCopied |-> n,
   checked |-> 0, mismatches |-> 0]

VerifyState(q, r, c) ==
  [type |-> "VERIFY", queue |-> q, rowIndex |-> r, totalCopied |-> 0,
   checked |-> c.checked, mismatches |-> c.mismatches]

NoCk == [prop |-> FALSE, alive |-> FALSE, data |-> Null]

SrcName(f) == Trees[tree].name[f]
SrcFiles(f) == Trees[tree].files[f]
SrcKids(f) == Trees[tree].kids[f]
SrcFolders == 1 .. Len(Trees[tree].name)

\* ------------------------------------------------------------------------
\* Destination Drive
\* ------------------------------------------------------------------------
\* destFolder.getFilesByName(name).hasNext()
HasFile(drive, d, name) ==
  \E i \in 1 .. Len(drive[d].files) : drive[d].files[i] = name

\* destFolder.getFoldersByName(name): the matching children of folder d
FoldersByName(drive, d, name) ==
  {i \in 1 .. Len(drive) : drive[i].parent = d /\ drive[i].name = name}

Min(S) == CHOOSE x \in S : \A y \in S : x <= y

\* parent.createFolder(name): the Drive after the call; the new id is its length
CreateFolder(drive, parent, name) ==
  Append(drive, [name |-> name, parent |-> parent, files |-> <<>>])

\* file.makeCopy(name, destFolder)
MakeCopy(drive, d, name) ==
  [drive EXCEPT ![d].files = Append(@, name)]

\* lines 196-199: the file is copied unless a file of that name exists
CopyIfAbsent(drive, d, name) ==
  IF HasFile(drive, d, name) THEN drive ELSE MakeCopy(drive, d, name)

\* lines 253-258: the first same-named child of d, else a new folder
FindOrCreate(drive, d, name) ==
  LET dSubIter == FoldersByName(drive, d, name)
  IN IF dSubIter # {}
     THEN [drive |-> drive, id |-> Min(dSubIter)]
     ELSE [drive |-> CreateFolder(drive, d, name), id |-> Len(drive) + 1]

\* ------------------------------------------------------------------------
\* Checkpoint store
\* ------------------------------------------------------------------------
SaveState(data) == [prop |-> TRUE, alive |-> TRUE, data |-> data]

LoadStateOf(c) == IF c.prop /\ c.alive THEN c.data ELSE Null

LoadState == LoadStateOf(ck)

ClearState(c) == IF c.prop THEN NoCk ELSE c

\* ------------------------------------------------------------------------
\* Logs and triggers
\* ------------------------------------------------------------------------
LogToSheet(l, r, type, name) ==
  Append(l, [row |-> r, type |-> type, name |-> name])

\* every 'startCopy' trigger is deleted
DeleteResumeTriggers(t) == 0

\* (mutant) createResumeTrigger without the deleteResumeTriggers() call
CreateResumeTrigger_NoDelete(t) == t + 1

CreateResumeTrigger(t) == DeleteResumeTriggers(t) + 1

\* ------------------------------------------------------------------------
\* Initial state: an untouched sheet, an empty destination, no job
\* ------------------------------------------------------------------------
Idle ==
  /\ walker' = "none"
  /\ pc' = "idle"
  /\ queue' = <<>>
  /\ it' = 0
  /\ row' = 0
  /\ totalCopied' = 0
  /\ checked' = 0
  /\ mismatches' = 0
  /\ st' = NoCounters
  /\ expired' = FALSE

\* a sheet whose first n rows name the source root, the others no source
Sheet(n) ==
  [r \in Rows |->
     [src |-> IF r <= n + 1 THEN RootId ELSE 0,
      status |-> Blank, url |-> 0, verif |-> Blank]]

InitWith(sheet) ==
  /\ tree \in 1 .. NTrees
  /\ rows = sheet
  /\ log = <<>>
  /\ dest = <<>>
  /\ ck = NoCk
  /\ triggers = 0
  /\ walker = "none"
  /\ pc = "idle"
  /\ queue = <<>>
  /\ it = 0
  /\ row = 0
  /\ totalCopied = 0
  /\ checked = 0
  /\ mismatches = 0
  /\ st = NoCounters
  /\ expired = FALSE
  /\ staleTok = FALSE
  /\ faults = 0
  /\ verifies = 0
  /\ last = "none"
  /\ interrupted = FALSE

\* one job row
Init == InitWith(Sheet(1))

\* ------------------------------------------------------------------------
\* Orchestrator: startCopy, setupJob
\* ------------------------------------------------------------------------
\* processQueue, entry: locals from the loaded state, status 'Processing...'
BeginCopy(r, state) ==
  /\ rows' = [rows EXCEPT ![r].status = Cell("Processing", 0)]
  /\ walker' = "copy"
  /\ pc' = "top"
  /\ queue' = state.queue
  /\ it' = 0
  /\ row' = r
  /\ totalCopied' = state.totalCopied
  /\ checked' = 0
  /\ mismatches' = 0
  /\ st' = NoCounters
  /\ expired' = FALSE
  /\ last' = "running"

\* processVerifyQueue, entry: locals from the state object, 'Verifying...'
BeginVerify(r, state) ==
  /\ rows' = [rows EXCEPT ![r].verif = Cell("Verifying", 0)]
  /\ walker' = "verify"
  /\ pc' = "top"
  /\ queue' = state.queue
  /\ it' = 0
  /\ row' = r
  /\ totalCopied' = 0
  /\ checked' = state.checked
  /\ mismatches' = state.mismatches
  /\ st' = [checked |-> state.checked, mismatches |-> state.mismatches]
  /\ expired' = FALSE
  /\ last' = "running"

\* setupJob succeeds: destination root created, url written, state saved;
\* startCopy then loads the state and enters processQueue
SetupJob(r) ==
  LET sourceId == rows[r].src
      destName == SrcName(sourceId) \o " duplicate"
      destId == Len(dest) + 1
      state == CopyState(<<Task(sourceId, destId)>>, r, 0)
  IN /\ sourceId \in SrcFolders
     /\ dest' = CreateFolder(dest, 0, destName)
     /\ ck' = SaveState(state)
     /\ rows' = [rows EXCEPT ![r].url = destId,
                             ![r].status = Cell("Processing", 0)]
     /\ walker' = "copy"
     /\ pc' = "top"
     /\ queue' = LoadStateOf(ck').queue
     /\ it' = 0
     /\ row' = r
     /\ totalCopied' = LoadStateOf(ck').totalCopied
     /\ checked' = 0
     /\ mismatches' = 0
     /\ st' = NoCounters
     /\ expired' = FALSE
     /\ last' = "running"
     /\ interrupted' = FALSE
     /\ UNCHANGED <<log, faults>>

\* a setupJob that fails only after the destination root has been created
SetupJobFails_AfterCreateFolder(r, c) ==
  /\ \/ rows[r].src \notin SrcFolders /\ UNCHANGED faults
     \/ rows[r].src \in SrcFolders /\ faults < MaxFaults /\ faults' = faults + 1
  /\ rows' = [rows EXCEPT ![r].status = Cell("Error", 0)]
  /\ dest' = CreateFolder(dest, 0, "duplicate")
  /\ ck' = c
  /\ last' = "setupfail"
  /\ Idle
  /\ UNCHANGED <<log, interrupted>>

\* setupJob fails (the source folder cannot be opened): status 'Error: ...'
SetupJobFails(r, c) ==
  /\ \/ rows[r].src \notin SrcFolders /\ UNCHANGED faults
     \/ rows[r].src \in SrcFolders /\ faults < MaxFaults /\ faults' = faults + 1
  /\ rows' = [rows EXCEPT ![r].status = Cell("Error", 0)]
  /\ ck' = c
  /\ last' = "setupfail"
  /\ Idle
  /\ UNCHANGED <<log, dest, interrupted>>

\* (mutant) a scan that takes the last qualifying row instead of the first
FindJob_LastCandidate(c, tr) ==
  LET cand == {r \in Rows : rows[r].src # 0
                            /\ rows[r].status.tag \in {"", "Pending"}}
      pick == CHOOSE x \in cand : \A y \in cand : x >= y
  IN /\ triggers' = tr
     /\ UNCHANGED <<tree, staleTok, verifies>>
     /\ IF cand = {}
        THEN /\ ck' = c
             /\ last' = "nojob"
             /\ Idle
             /\ UNCHANGED <<rows, log, dest, faults, interrupted>>
        ELSE \/ SetupJob(pick)
             \/ SetupJobFails(pick, c)

\* startCopy, else branch: the first row with a source id and an empty or
\* 'Pending' status is set up and run; c, tr: checkpoint and triggers on entry
FindJob(c, tr) ==
  LET cand == {r \in Rows : rows[r].src # 0
                            /\ rows[r].status.tag \in {"", "Pending"}}
  IN /\ triggers' = tr
     /\ UNCHANGED <<tree, staleTok, verifies>>
     /\ IF cand = {}
        THEN /\ ck' = c
             /\ last' = "nojob"
             /\ Idle
             /\ UNCHANGED <<rows, log, dest, faults, interrupted>>
        ELSE \/ SetupJob(Min(cand))
             \/ SetupJobFails(Min(cand), c)

\* (mutant) a startCopy that looks for a new job after a Verify job too
StartCopyFrom_VerifyChains(tr) ==
  LET state == LoadState
      col == IF state.type = "VERIFY" THEN "verif" ELSE "status"
  IN IF state.type # "NONE"
     THEN IF rows[state.rowIndex][col].tag = "Done"
          THEN FindJob(ClearState(ck), DeleteResumeTriggers(tr))
          ELSE /\ IF state.type = "VERIFY"
                  THEN BeginVerify(state.rowIndex, state)
                  ELSE BeginCopy(state.rowIndex, state)
               /\ triggers' = tr
               /\ UNCHANGED <<tree, log, dest, ck, staleTok, faults, verifies,
                              interrupted>>
     ELSE FindJob(ck, tr)

\* startCopy with tr triggers pending on entry
StartCopyFrom(tr) ==
  LET state == LoadState
      col == IF state.type = "VERIFY" THEN "verif" ELSE "status"
  IN IF state.type # "NONE"
     THEN IF rows[state.rowIndex][col].tag = "Done"
          THEN IF state.type # "VERIFY"
               THEN FindJob(ClearState(ck), DeleteResumeTriggers(tr))
               ELSE /\ ck' = ClearState(ck)
                    /\ triggers' = DeleteResumeTriggers(tr)
                    /\ last' = "cleared"
                    /\ Idle
                    /\ UNCHANGED <<tree, rows, log, dest, staleTok, faults,
                                   verifies, interrupted>>
          ELSE /\ IF state.type = "VERIFY"
                  THEN BeginVerify(state.rowIndex, state)
                  ELSE BeginCopy(state.rowIndex, state)
               /\ triggers' = tr
               /\ UNCHANGED <<tree, log, dest, ck, staleTok, faults, verifies,
                              interrupted>>
     ELSE FindJob(ck, tr)

\* the operator picks 'Start / Resume Copy'
StartCopy ==
  /\ walker = "none"
  /\ StartCopyFrom(triggers)

\* the one-time trigger created by createResumeTrigger fires
TriggerFires ==
  /\ walker = "none"
  /\ triggers > 0
  /\ StartCopyFrom(triggers - 1)

\* ------------------------------------------------------------------------
\* Environment
\* ------------------------------------------------------------------------
\* the time limit of the execution is reached
Expire ==
  /\ walker # "none"
  /\ ~expired
  /\ expired' = TRUE
  /\ UNCHANGED <<tree, rows, log, dest, ck, triggers, walker, pc, queue, it,
                 row, totalCopied, checked, mismatches, st, staleTok, faults,
                 verifies, last, interrupted>>

HasToken(q) ==
  /\ q # <<>>
  /\ \/ q[1].fileToken # NoToken
     \/ q[1].folderToken # NoToken

\* between two executions the operator types 'Done' in the status cell of
\* the job in the checkpoint (the cell startCopy reads at line 44)
MarkDone ==
  LET state == LoadState
  IN /\ walker = "none"
     /\ state.type # "NONE"
     /\ IF state.type = "VERIFY"
        THEN /\ rows[state.rowIndex].verif.tag # "Done"
             /\ rows' = [rows EXCEPT ![state.rowIndex].verif = Cell("Done", 0)]
        ELSE /\ rows[state.rowIndex].status.tag # "Done"
             /\ rows' = [rows EXCEPT ![state.rowIndex].status = Cell("Done", 0)]
     /\ UNCHANGED <<tree, log, dest, ck, triggers, walkVars, staleTok, faults,
                    verifies, last, interrupted>>

\* the state file is deleted in Drive by someone else; the document
\* property still names it (the case of the catch blocks of lines 304, 324)
StateFileDeleted ==
  /\ ck.prop
  /\ ck.alive
  /\ ck' = [ck EXCEPT !.alive = FALSE]
  /\ UNCHANGED <<tree, rows, log, dest, triggers, walkVars, staleTok, faults,
                 verifies, last, interrupted>>

\* between two executions the backend expires the persisted token
TokensExpire ==
  /\ walker = "none"
  /\ ~staleTok
  /\ HasToken(LoadState.queue)
  /\ staleTok' = TRUE
  /\ UNCHANGED <<tree, rows, log, dest, ck, triggers, walkVars, faults,
                 verifies, last, interrupted>>

\* ------------------------------------------------------------------------
\* Copy walker: processQueue
\* ------------------------------------------------------------------------
currentItem == queue[1]

InCopy(p) == walker = "copy" /\ pc = p

\* what a step of a walker leaves alone besides the variables it names
KeepEnv == UNCHANGED <<tree, verifies, interrupted>>

\* loop head with a task: both folders open; FILES stage: the file iterator
\* is continued from the token or opened; FOLDERS stage: on to the folders
CopyTop ==
  /\ InCopy("top")
  /\ queue # <<>>
  /\ IF currentItem.stage = "FILES"
     THEN /\ ~(currentItem.fileToken # NoToken /\ staleTok)
          /\ it' = IF currentItem.fileToken # NoToken THEN currentItem.fileToken ELSE 0
          /\ pc' = "files"
     ELSE /\ it' = 0
          /\ pc' = "fstage"
  /\ KeepEnv
  /\ UNCHANGED <<rows, log, dest, ck, triggers, walker, queue, row,
                 totalCopied, checked, mismatches, st, expired, staleTok,
                 faults, last>>

\* getFolderById throws: the task is logged and skipped entirely
CopyAccessFail ==
  /\ InCopy("top")
  /\ queue # <<>>
  /\ faults < MaxFaults
  /\ faults' = faults + 1
  /\ log' = LogToSheet(log, row, "ERROR", "Access")
  /\ queue' = Tail(queue)
  /\ KeepEnv
  /\ UNCHANGED <<rows, dest, ck, triggers, walker, pc, it, row, totalCopied,
                 checked, mismatches, st, expired, staleTok, last>>

\* (mutant) a file listing failure that drops the whole task
CopyFileIterFail_DropsTask ==
  /\ InCopy("top")
  /\ queue # <<>>
  /\ currentItem.stage = "FILES"
  /\ faults < MaxFaults
  /\ faults' = faults + 1
  /\ log' = LogToSheet(log, row, "WARN", "File Iterator")
  /\ queue' = Tail(queue)
  /\ staleTok' = FALSE
  /\ KeepEnv
  /\ UNCHANGED <<rows, dest, ck, triggers, walker, pc, it, row, totalCopied,
                 checked, mismatches, st, expired, last>>

\* continueFileIterator or getFiles throws on a transient error: the FILES
\* stage is abandoned
CopyFileIterFail ==
  /\ InCopy("top")
  /\ queue # <<>>
  /\ currentItem.stage = "FILES"
  /\ faults < MaxFaults
  /\ faults' = faults + 1
  /\ log' = LogToSheet(log, row, "WARN", "File Iterator")
  /\ queue' = [queue EXCEPT ![1].stage = "FOLDERS", ![1].fileToken = NoToken]
  /\ staleTok' = FALSE
  /\ KeepEnv
  /\ UNCHANGED <<rows, dest, ck, triggers, walker, pc, it, row, totalCopied,
                 checked, mismatches, st, expired, last>>

\* continueFileIterator rejects the persisted token: same handler
CopyFileTokenStale ==
  /\ InCopy("top")
  /\ queue # <<>>
  /\ currentItem.stage = "FILES"
  /\ currentItem.fileToken # NoToken
  /\ staleTok
  /\ UNCHANGED faults
  /\ log' = LogToSheet(log, row, "WARN", "File Iterator")
  /\ queue' = [queue EXCEPT ![1].stage = "FOLDERS", ![1].fileToken = NoToken]
  /\ staleTok' = FALSE
  /\ KeepEnv
  /\ UNCHANGED <<rows, dest, ck, triggers, walker, pc, it, row, totalCopied,
                 checked, mismatches, st, expired, last>>

\* the status cell is rewritten when 5 seconds have passed; the count shown
\* by a 'Processing...' or 'Verifying...' cell is not part of the model
Refresh(r, col, cell) ==
  rows' = [rows EXCEPT ![r][col] = cell]

\* one file: counted, then copied unless a file of that name exists
CopyFile ==
  /\ InCopy("files")
  /\ it < Len(SrcFiles(currentItem.sourceId))
  /\ ~expired
  /\ dest' = CopyIfAbsent(dest, currentItem.destId,
                         SrcFiles(currentItem.sourceId)[it + 1])
  /\ totalCopied' = totalCopied + 1
  /\ it' = it + 1
  /\ Refresh(row, "status", Cell("Processing", 0))
  /\ KeepEnv
  /\ UNCHANGED <<log, ck, triggers, walker, pc, queue, row, checked,
                 mismatches, st, expired, staleTok, faults, last>>

\* (mutant) a file whose copy throws is logged and not counted
CopyFileFail_NotCounted ==
  /\ InCopy("files")
  /\ it < Len(SrcFiles(currentItem.sourceId))
  /\ ~expired
  /\ faults < MaxFaults
  /\ faults' = faults + 1
  /\ log' = LogToSheet(log, row, "ERROR", SrcFiles(currentItem.sourceId)[it + 1])
  /\ it' = it + 1
  /\ Refresh(row, "status", Cell("Processing", 0))
  /\ KeepEnv
  /\ UNCHANGED <<dest, ck, triggers, walker, pc, queue, row, totalCopied,
                 checked, mismatches, st, expired, staleTok, last>>

\* one file whose lookup or copy throws: counted, logged, not copied
CopyFileFail ==
  /\ InCopy("files")
  /\ it < Len(SrcFiles(currentItem.sourceId))
  /\ ~expired
  /\ faults < MaxFaults
  /\ faults' = faults + 1
  /\ log' = LogToSheet(log, row, "ERROR", SrcFiles(currentItem.sourceId)[it + 1])
  /\ totalCopied' = totalCopied + 1
  /\ it' = it + 1
  /\ Refresh(row, "status", Cell("Processing", 0))
  /\ KeepEnv
  /\ UNCHANGED <<dest, ck, triggers, walker, pc, queue, row, checked,
                 mismatches, st, expired, staleTok, last>>

\* (mutant) the token saved at a pause points one file too far
CopyFilesPause_TokenPastItem ==
  /\ InCopy("files")
  /\ it < Len(SrcFiles(currentItem.sourceId))
  /\ expired
  /\ LET q == [queue EXCEPT ![1].fileToken = it + 1]
     IN ck' = SaveState(CopyState(q, row, totalCopied))
  /\ triggers' = CreateResumeTrigger(triggers)
  /\ rows' = [rows EXCEPT ![row].status = Cell("Pausing", totalCopied)]
  /\ staleTok' = FALSE
  /\ last' = "paused"
  /\ interrupted' = TRUE
  /\ Idle
  /\ UNCHANGED <<tree, verifies>>
  /\ UNCHANGED <<log, dest, faults>>

\* the time limit is found exceeded before a file: token, save, trigger
CopyFilesPause ==
  /\ InCopy("files")
  /\ it < Len(SrcFiles(currentItem.sourceId))
  /\ expired
  /\ LET q == [queue EXCEPT ![1].fileToken = it]
     IN ck' = SaveState(CopyState(q, row, totalCopied))
  /\ triggers' = CreateResumeTrigger(triggers)
  /\ rows' = [rows EXCEPT ![row].status = Cell("Pausing", totalCopied)]
  /\ staleTok' = FALSE
  /\ last' = "paused"
  /\ interrupted' = TRUE
  /\ Idle
  /\ UNCHANGED <<tree, verifies>>
  /\ UNCHANGED <<log, dest, faults>>

\* (mutant) no file left: the task moves to FOLDERS and keeps its file token
CopyFilesEnd_KeepsToken ==
  /\ InCopy("files")
  /\ it >= Len(SrcFiles(currentItem.sourceId))
  /\ queue' = [queue EXCEPT ![1].stage = "FOLDERS"]
  /\ pc' = "fstage"
  /\ it' = 0
  /\ KeepEnv
  /\ UNCHANGED <<rows, log, dest, ck, triggers, walker, row, totalCopied,
                 checked, mismatches, st, expired, staleTok, faults, last>>

\* (mutant) no file left: the task is removed without a FOLDERS stage
CopyFilesEnd_DropsTask ==
  /\ InCopy("files")
  /\ it >= Len(SrcFiles(currentItem.sourceId))
  /\ queue' = Tail(queue)
  /\ pc' = "top"
  /\ it' = 0
  /\ KeepEnv
  /\ UNCHANGED <<rows, log, dest, ck, triggers, walker, row, totalCopied,
                 checked, mismatches, st, expired, staleTok, faults, last>>

\* no file left: the task moves to the FOLDERS stage
CopyFilesEnd ==
  /\ InCopy("files")
  /\ it >= Len(SrcFiles(currentItem.sourceId))
  /\ queue' = [queue EXCEPT ![1].stage = "FOLDERS", ![1].fileToken = NoToken]
  /\ pc' = "fstage"
  /\ it' = 0
  /\ KeepEnv
  /\ UNCHANGED <<rows, log, dest, ck, triggers, walker, row, totalCopied,
                 checked, mismatches, st, expired, staleTok, faults, last>>

\* files.hasNext() throws: logged, the loop is left as if no file were left
CopyFilesHasNextFail ==
  /\ InCopy("files")
  /\ faults < MaxFaults
  /\ faults' = faults + 1
  /\ log' = LogToSheet(log, row, "WARN", "File Iterator")
  /\ queue' = [queue EXCEPT ![1].stage = "FOLDERS", ![1].fileToken = NoToken]
  /\ pc' = "fstage"
  /\ it' = 0
  /\ KeepEnv
  /\ UNCHANGED <<rows, dest, ck, triggers, walker, row, totalCopied, checked,
                 mismatches, st, expired, staleTok, last>>

\* FOLDERS stage: the folder iterator is continued from the token or opened
CopyOpenFolders ==
  /\ InCopy("fstage")
  /\ ~(currentItem.folderToken # NoToken /\ staleTok)
  /\ it' = IF currentItem.folderToken # NoToken
           THEN currentItem.folderToken
           ELSE 0
  /\ pc' = "folders"
  /\ KeepEnv
  /\ UNCHANGED <<rows, log, dest, ck, triggers, walker, queue, row,
                 totalCopied, checked, mismatches, st, expired, staleTok,
                 faults, last>>

\* continueFolderIterator or getFolders throws: the task is dequeued
CopyFolderIterFail ==
  /\ InCopy("fstage")
  /\ faults < MaxFaults
  /\ faults' = faults + 1
  /\ log' = LogToSheet(log, row, "WARN", "Folder Iterator")
  /\ queue' = Tail(queue)
  /\ pc' = "top"
  /\ staleTok' = FALSE
  /\ KeepEnv
  /\ UNCHANGED <<rows, dest, ck, triggers, walker, it, row, totalCopied,
                 checked, mismatches, st, expired, last>>

\* continueFolderIterator rejects the persisted token: same handler
CopyFolderTokenStale ==
  /\ InCopy("fstage")
  /\ currentItem.folderToken # NoToken
  /\ staleTok
  /\ UNCHANGED faults
  /\ log' = LogToSheet(log, row, "WARN", "Folder Iterator")
  /\ queue' = Tail(queue)
  /\ pc' = "top"
  /\ staleTok' = FALSE
  /\ KeepEnv
  /\ UNCHANGED <<rows, dest, ck, triggers, walker, it, row, totalCopied,
                 checked, mismatches, st, expired, last>>

\* (mutant) the child task is inserted right behind the head (depth first)
CopySub_DepthFirst ==
  /\ InCopy("folders")
  /\ it < Len(SrcKids(currentItem.sourceId))
  /\ ~expired
  /\ LET sub == SrcKids(currentItem.sourceId)[it + 1]
         dSub == FindOrCreate(dest, currentItem.destId, SrcName(sub))
     IN /\ dest' = dSub.drive
        /\ queue' = <<queue[1], Task(sub, dSub.id)>> \o Tail(queue)
  /\ it' = it + 1
  /\ KeepEnv
  /\ UNCHANGED <<rows, log, ck, triggers, walker, pc, row, totalCopied,
                 checked, mismatches, st, expired, staleTok, faults, last>>

\* one subfolder: the same-named destination folder is found or created,
\* and the child task is pushed at the tail
CopySub ==
  /\ InCopy("folders")
  /\ it < Len(SrcKids(currentItem.sourceId))
  /\ ~expired
  /\ LET sub == SrcKids(currentItem.sourceId)[it + 1]
         dSub == FindOrCreate(dest, currentItem.destId, SrcName(sub))
     IN /\ dest' = dSub.drive
        /\ queue' = Append(queue, Task(sub, dSub.id))
  /\ it' = it + 1
  /\ KeepEnv
  /\ UNCHANGED <<rows, log, ck, triggers, walker, pc, row, totalCopied,
                 checked, mismatches, st, expired, staleTok, faults, last>>

\* (mutant) the find-or-create throws and the task is pushed all the same,
\* with the destination id left undefined
CopySubFail_Enqueues ==
  /\ InCopy("folders")
  /\ it < Len(SrcKids(currentItem.sourceId))
  /\ ~expired
  /\ faults < MaxFaults
  /\ faults' = faults + 1
  /\ log' = LogToSheet(log, row, "ERROR",
                       SrcName(SrcKids(currentItem.sourceId)[it + 1]))
  /\ queue' = Append(queue, Task(SrcKids(currentItem.sourceId)[it + 1], 0))
  /\ it' = it + 1
  /\ KeepEnv
  /\ UNCHANGED <<rows, dest, ck, triggers, walker, pc, row,
                 totalCopied, checked, mismatches, st, expired, staleTok,
                 last>>

\* one subfolder whose find-or-create throws: logged, not enqueued
CopySubFail ==
  /\ InCopy("folders")
  /\ it < Len(SrcKids(currentItem.sourceId))
  /\ ~expired
  /\ faults < MaxFaults
  /\ faults' = faults + 1
  /\ log' = LogToSheet(log, row, "ERROR",
                       SrcName(SrcKids(currentItem.sourceId)[it + 1]))
  /\ it' = it + 1
  /\ KeepEnv
  /\ UNCHANGED <<rows, dest, ck, triggers, walker, pc, queue, row,
                 totalCopied, checked, mismatches, st, expired, staleTok,
                 last>>

\* the time limit is found exceeded before a subfolder: token, save, trigger
CopyFoldersPause ==
  /\ InCopy("folders")
  /\ it < Len(SrcKids(currentItem.sourceId))
  /\ expired
  /\ LET q == [queue EXCEPT ![1].folderToken = it]
     IN ck' = SaveState(CopyState(q, row, totalCopied))
  /\ triggers' = CreateResumeTrigger(triggers)
  /\ rows' = [rows EXCEPT ![row].status = Cell("Pausing", totalCopied)]
  /\ staleTok' = FALSE
  /\ last' = "paused"
  /\ interrupted' = TRUE
  /\ Idle
  /\ UNCHANGED <<tree, verifies>>
  /\ UNCHANGED <<log, dest, faults>>

\* no subfolder left: the task is removed from the queue
CopyFoldersEnd ==
  /\ InCopy("folders")
  /\ it >= Len(SrcKids(currentItem.sourceId))
  /\ queue' = Tail(queue)
  /\ pc' = "top"
  /\ it' = 0
  /\ KeepEnv
  /\ UNCHANGED <<rows, log, dest, ck, triggers, walker, row, totalCopied,
                 checked, mismatches, st, expired, staleTok, faults, last>>

\* folders.hasNext() throws: logged, the task is removed from the queue
CopyFoldersHasNextFail ==
  /\ InCopy("folders")
  /\ faults < MaxFaults
  /\ faults' = faults + 1
  /\ log' = LogToSheet(log, row, "WARN", "Folder Iterator")
  /\ queue' = Tail(queue)
  /\ pc' = "top"
  /\ it' = 0
  /\ KeepEnv
  /\ UNCHANGED <<rows, dest, ck, triggers, walker, row, totalCopied, checked,
                 mismatches, st, expired, staleTok, last>>

\* (mutant) completion without deleteResumeTriggers()
CopyFinish_KeepsTriggers ==
  /\ InCopy("top")
  /\ queue = <<>>
  /\ rows' = [rows EXCEPT ![row].status = Cell("Done", totalCopied)]
  /\ ck' = ClearState(ck)
  /\ log' = LogToSheet(log, row, "INFO", "Job")
  /\ last' = "done"
  /\ Idle
  /\ KeepEnv
  /\ UNCHANGED <<dest, staleTok, faults, triggers>>

\* the queue is empty: triggers deleted, 'Done. (n files processed)',
\* checkpoint cleared, completion logged
CopyFinish ==
  /\ InCopy("top")
  /\ queue = <<>>
  /\ triggers' = DeleteResumeTriggers(triggers)
  /\ rows' = [rows EXCEPT ![row].status = Cell("Done", totalCopied)]
  /\ ck' = ClearState(ck)
  /\ log' = LogToSheet(log, row, "INFO", "Job")
  /\ last' = "done"
  /\ Idle
  /\ KeepEnv
  /\ UNCHANGED <<dest, staleTok, faults>>

\* an exception escapes the loop (files.next(), folders.next(), a sheet
\* write): 'Error: ...', CRITICAL log row, queue and totalCopied saved
CopyFatal ==
  /\ walker = "copy"
  /\ pc \in {"files", "folders"}
  /\ faults < MaxFaults
  /\ faults' = faults + 1
  /\ rows' = [rows EXCEPT ![row].status = Cell("Error", 0)]
  /\ log' = LogToSheet(log, row, "CRITICAL", "ProcessQueue")
  /\ ck' = SaveState(CopyState(queue, row, totalCopied))
  /\ last' = "fatal"
  /\ Idle
  /\ KeepEnv
  /\ UNCHANGED <<dest, triggers, staleTok>>

\* ------------------------------------------------------------------------
\* Verification: verifyCopy, processVerifyQueue
\* ------------------------------------------------------------------------
InVerify(p) == walker = "verify" /\ pc = p

\* the `state` object as saveState(state) writes it: its queue is the
\* in-memory queue, its counters are the ones it was created or loaded with
StateObject(q) == VerifyState(q, row, st)

\* (mutant) verifyCopy without the busy check
VerifyCopy_NoBusyCheck(r) ==
  /\ walker = "none"
  /\ IF rows[r].src = 0 \/ rows[r].url = 0
     THEN /\ last' = "badrow"
          /\ UNCHANGED <<tree, rows, log, dest, ck, triggers, walkVars,
                         staleTok, faults, verifies, interrupted>>
     ELSE LET queue0 == <<Task(rows[r].src, rows[r].url)>>
              state == VerifyState(queue0, r, NoCounters)
          IN /\ verifies < MaxVerify
             /\ verifies' = verifies + 1
             /\ ck' = SaveState(state)
             /\ BeginVerify(r, state)
             /\ interrupted' = FALSE
             /\ UNCHANGED <<tree, log, dest, triggers, staleTok, faults>>

\* the operator picks 'Start / Resume Verify' with the cursor on row r
VerifyCopy(r) ==
  /\ walker = "none"
  /\ IF LoadState.type # "NONE"
     THEN /\ last' = "busy"
          /\ UNCHANGED <<tree, rows, log, dest, ck, triggers, walkVars,
                         staleTok, faults, verifies, interrupted>>
     ELSE IF rows[r].src = 0 \/ rows[r].url = 0
          THEN /\ last' = "badrow"
               /\ UNCHANGED <<tree, rows, log, dest, ck, triggers, walkVars,
                              staleTok, faults, verifies, interrupted>>
          ELSE LET queue0 == <<Task(rows[r].src, rows[r].url)>>
                   state == VerifyState(queue0, r, NoCounters)
               IN /\ verifies < MaxVerify
                  /\ verifies' = verifies + 1
                  /\ ck' = SaveState(state)
                  /\ BeginVerify(r, state)
                  /\ interrupted' = FALSE
                  /\ UNCHANGED <<tree, log, dest, triggers, staleTok, faults>>

VerifyTop ==
  /\ InVerify("top")
  /\ queue # <<>>
  /\ IF currentItem.stage = "FILES"
     THEN /\ ~(currentItem.fileToken # NoToken /\ staleTok)
          /\ it' = IF currentItem.fileToken # NoToken
                   THEN currentItem.fileToken
                   ELSE 0
          /\ pc' = "files"
     ELSE /\ it' = 0
          /\ pc' = "fstage"
  /\ KeepEnv
  /\ UNCHANGED <<rows, log, dest, ck, triggers, walker, queue, row,
                 totalCopied, checked, mismatches, st, expired, staleTok,
                 faults, last>>

VerifyAccessFail ==
  /\ InVerify("top")
  /\ queue # <<>>
  /\ faults < MaxFaults
  /\ faults' = faults + 1
  /\ log' = LogToSheet(log, row, "ERROR", "Access-Verify")
  /\ queue' = Tail(queue)
  /\ KeepEnv
  /\ UNCHANGED <<rows, dest, ck, triggers, walker, pc, it, row, totalCopied,
                 checked, mismatches, st, expired, staleTok, last>>

VerifyFileIterFail ==
  /\ InVerify("top")
  /\ queue # <<>>
  /\ currentItem.stage = "FILES"
  /\ faults < MaxFaults
  /\ faults' = faults + 1
  /\ log' = LogToSheet(log, row, "WARN", "Verify-Files")
  /\ queue' = [queue EXCEPT ![1].stage = "FOLDERS", ![1].fileToken = NoToken]
  /\ staleTok' = FALSE
  /\ KeepEnv
  /\ UNCHANGED <<rows, dest, ck, triggers, walker, pc, it, row, totalCopied,
                 checked, mismatches, st, expired, last>>

\* continueFileIterator rejects the persisted token
VerifyFileTokenStale ==
  /\ InVerify("top")
  /\ queue # <<>>
  /\ currentItem.stage = "FILES"
  /\ currentItem.fileToken # NoToken
  /\ staleTok
  /\ UNCHANGED faults
  /\ log' = LogToSheet(log, row, "WARN", "Verify-Files")
  /\ queue' = [queue EXCEPT ![1].stage = "FOLDERS", ![1].fileToken = NoToken]
  /\ staleTok' = FALSE
  /\ KeepEnv
  /\ UNCHANGED <<rows, dest, ck, triggers, walker, pc, it, row, totalCopied,
                 checked, mismatches, st, expired, last>>

\* one file: counted; a mismatch and a MISSING row if no file of that name
\* exists in the destination folder
VerifyFile ==
  /\ InVerify("files")
  /\ it < Len(SrcFiles(currentItem.sourceId))
  /\ ~expired
  /\ LET name == SrcFiles(currentItem.sourceId)[it + 1]
     IN IF HasFile(dest, currentItem.destId, name)
        THEN UNCHANGED <<mismatches, log>>
        ELSE /\ mismatches' = mismatches + 1
             /\ log' = LogToSheet(log, row, "MISSING", name)
  /\ checked' = checked + 1
  /\ it' = it + 1
  /\ Refresh(row, "verif", Cell("Verifying", 0))
  /\ KeepEnv
  /\ UNCHANGED <<dest, ck, triggers, walker, pc, queue, row, totalCopied, st,
                 expired, staleTok, faults, last>>

VerifyFileFail ==
  /\ InVerify("files")
  /\ it < Len(SrcFiles(currentItem.sourceId))
  /\ ~expired
  /\ faults < MaxFaults
  /\ faults' = faults + 1
  /\ log' = LogToSheet(log, row, "ERROR",
                       SrcFiles(currentItem.sourceId)[it + 1])
  /\ checked' = checked + 1
  /\ it' = it + 1
  /\ Refresh(row, "verif", Cell("Verifying", 0))
  /\ KeepEnv
  /\ UNCHANGED <<dest, ck, triggers, walker, pc, queue, row, totalCopied,
                 mismatches, st, expired, staleTok, last>>

VerifyFilesPause ==
  /\ InVerify("files")
  /\ it < Len(SrcFiles(currentItem.sourceId))
  /\ expired
  /\ ck' = SaveState(StateObject([queue EXCEPT ![1].fileToken = it]))
  /\ triggers' = CreateResumeTrigger(triggers)
  /\ rows' = [rows EXCEPT ![row].verif = Cell("Verifying", 0)]
  /\ staleTok' = FALSE
  /\ last' = "paused"
  /\ interrupted' = TRUE
  /\ Idle
  /\ UNCHANGED <<tree, verifies>>
  /\ UNCHANGED <<log, dest, faults>>

VerifyFilesEnd ==
  /\ InVerify("files")
  /\ it >= Len(SrcFiles(currentItem.sourceId))
  /\ queue' = [queue EXCEPT ![1].stage = "FOLDERS", ![1].fileToken = NoToken]
  /\ pc' = "fstage"
  /\ it' = 0
  /\ KeepEnv
  /\ UNCHANGED <<rows, log, dest, ck, triggers, walker, row, totalCopied,
                 checked, mismatches, st, expired, staleTok, faults, last>>

VerifyFilesHasNextFail ==
  /\ InVerify("files")
  /\ faults < MaxFaults
  /\ faults' = faults + 1
  /\ log' = LogToSheet(log, row, "WARN", "Verify-Files")
  /\ queue' = [queue EXCEPT ![1].stage = "FOLDERS", ![1].fileToken = NoToken]
  /\ pc' = "fstage"
  /\ it' = 0
  /\ KeepEnv
  /\ UNCHANGED <<rows, dest, ck, triggers, walker, row, totalCopied, checked,
                 mismatches, st, expired, staleTok, last>>

VerifyOpenFolders ==
  /\ InVerify("fstage")
  /\ ~(currentItem.folderToken # NoToken /\ staleTok)
  /\ it' = IF currentItem.folderToken # NoToken
           THEN currentItem.folderToken
           ELSE 0
  /\ pc' = "folders"
  /\ KeepEnv
  /\ UNCHANGED <<rows, log, dest, ck, triggers, walker, queue, row,
                 totalCopied, checked, mismatches, st, expired, staleTok,
                 faults, last>>

VerifyFolderIterFail ==
  /\ InVerify("fstage")
  /\ faults < MaxFaults
  /\ faults' = faults + 1
  /\ log' = LogToSheet(log, row, "WARN", "Verify-Folders")
  /\ queue' = Tail(queue)
  /\ pc' = "top"
  /\ staleTok' = FALSE
  /\ KeepEnv
  /\ UNCHANGED <<rows, dest, ck, triggers, walker, it, row, totalCopied,
                 checked, mismatches, st, expired, last>>

\* continueFolderIterator rejects the persisted token
VerifyFolderTokenStale ==
  /\ InVerify("fstage")
  /\ currentItem.folderToken # NoToken
  /\ staleTok
  /\ UNCHANGED faults
  /\ log' = LogToSheet(log, row, "WARN", "Verify-Folders")
  /\ queue' = Tail(queue)
  /\ pc' = "top"
  /\ staleTok' = FALSE
  /\ KeepEnv
  /\ UNCHANGED <<rows, dest, ck, triggers, walker, it, row, totalCopied,
                 checked, mismatches, st, expired, last>>

\* (mutant) a Verify that creates the destination subfolder it finds missing
VerifySub_FindOrCreate ==
  /\ InVerify("folders")
  /\ it < Len(SrcKids(currentItem.sourceId))
  /\ ~expired
  /\ LET sub == SrcKids(currentItem.sourceId)[it + 1]
         dSub == FindOrCreate(dest, currentItem.destId, SrcName(sub))
     IN /\ dest' = dSub.drive
        /\ queue' = Append(queue, Task(sub, dSub.id))
  /\ it' = it + 1
  /\ KeepEnv
  /\ UNCHANGED <<rows, log, ck, triggers, walker, pc, row, totalCopied,
                 checked, mismatches, st, expired, staleTok, faults, last>>

\* one subfolder: enqueued if a same-named destination folder exists,
\* else a mismatch and a MISSING_DIR row
VerifySub ==
  /\ InVerify("folders")
  /\ it < Len(SrcKids(currentItem.sourceId))
  /\ ~expired
  /\ LET sub == SrcKids(currentItem.sourceId)[it + 1]
         dSubIter == FoldersByName(dest, currentItem.destId, SrcName(sub))
     IN IF dSubIter # {}
        THEN /\ queue' = Append(queue, Task(sub, Min(dSubIter)))
             /\ UNCHANGED <<mismatches, log>>
        ELSE /\ mismatches' = mismatches + 1
             /\ log' = LogToSheet(log, row, "MISSING_DIR", SrcName(sub))
             /\ UNCHANGED queue
  /\ it' = it + 1
  /\ KeepEnv
  /\ UNCHANGED <<rows, dest, ck, triggers, walker, pc, row, totalCopied,
                 checked, st, expired, staleTok, faults, last>>

VerifySubFail ==
  /\ InVerify("folders")
  /\ it < Len(SrcKids(currentItem.sourceId))
  /\ ~expired
  /\ faults < MaxFaults
  /\ faults' = faults + 1
  /\ log' = LogToSheet(log, row, "ERROR",
                       SrcName(SrcKids(currentItem.sourceId)[it + 1]))
  /\ it' = it + 1
  /\ KeepEnv
  /\ UNCHANGED <<rows, dest, ck, triggers, walker, pc, queue, row,
                 totalCopied, checked, mismatches, st, expired, staleTok,
                 last>>

VerifyFoldersPause ==
  /\ InVerify("folders")
  /\ it < Len(SrcKids(currentItem.sourceId))
  /\ expired
  /\ ck' = SaveState(StateObject([queue EXCEPT ![1].folderToken = it]))
  /\ triggers' = CreateResumeTrigger(triggers)
  /\ rows' = [rows EXCEPT ![row].verif = Cell("Verifying", 0)]
  /\ staleTok' = FALSE
  /\ last' = "paused"
  /\ interrupted' = TRUE
  /\ Idle
  /\ UNCHANGED <<tree, verifies>>
  /\ UNCHANGED <<log, dest, faults>>

VerifyFoldersEnd ==
  /\ InVerify("folders")
  /\ it >= Len(SrcKids(currentItem.sourceId))
  /\ queue' = Tail(queue)
  /\ pc' = "top"
  /\ it' = 0
  /\ KeepEnv
  /\ UNCHANGED <<rows, log, dest, ck, triggers, walker, row, totalCopied,
                 checked, mismatches, st, expired, staleTok, faults, last>>

VerifyFoldersHasNextFail ==
  /\ InVerify("folders")
  /\ faults < MaxFaults
  /\ faults' = faults + 1
  /\ log' = LogToSheet(log, row, "WARN", "Verify-Folders")
  /\ queue' = Tail(queue)
  /\ pc' = "top"
  /\ it' = 0
  /\ KeepEnv
  /\ UNCHANGED <<rows, dest, ck, triggers, walker, row, totalCopied, checked,
                 mismatches, st, expired, staleTok, last>>

\* the queue is empty: triggers deleted, checkpoint cleared, 'Done. <n>
\* files checked.' with ' <m> ISSUES (See Logs)' or ' Perfect Match.'
VerifyFinish ==
  /\ InVerify("top")
  /\ queue = <<>>
  /\ triggers' = DeleteResumeTriggers(triggers)
  /\ ck' = ClearState(ck)
  /\ rows' = [rows EXCEPT
                ![row].verif = [tag |-> "Done", n |-> checked, m |-> mismatches]]
  /\ last' = "done"
  /\ Idle
  /\ KeepEnv
  /\ UNCHANGED <<log, dest, staleTok, faults>>

\* an exception escapes the loop: 'Error: ...', CRITICAL log row,
\* saveState(state)
VerifyFatal ==
  /\ walker = "verify"
  /\ pc \in {"files", "folders"}
  /\ faults < MaxFaults
  /\ faults' = faults + 1
  /\ rows' = [rows EXCEPT ![row].verif = Cell("Error", 0)]
  /\ log' = LogToSheet(log, row, "CRITICAL", "Verify")
  /\ ck' = SaveState(StateObject(queue))
  /\ last' = "fatal"
  /\ Idle
  /\ KeepEnv
  /\ UNCHANGED <<dest, triggers, staleTok>>

\* ------------------------------------------------------------------------
\* Reset
\* ------------------------------------------------------------------------
\* (mutant) a reset that cancels the resumes and keeps the checkpoint
ResetMemory_KeepsCheckpoint ==
  /\ walker = "none"
  /\ ck' = ck
  /\ triggers' = DeleteResumeTriggers(triggers)
  /\ last' = "reset"
  /\ UNCHANGED <<tree, rows, log, dest, walkVars, staleTok, faults, verifies,
                 interrupted>>

\* the operator picks 'Reset / Clear Memory'
ResetMemory ==
  /\ walker = "none"
  /\ ck' = ClearState(ck)
  /\ triggers' = DeleteResumeTriggers(triggers)
  /\ last' = "reset"
  /\ UNCHANGED <<tree, rows, log, dest, walkVars, staleTok, faults, verifies,
                 interrupted>>

\* ------------------------------------------------------------------------
\* Specifications
\* ------------------------------------------------------------------------
CopyRun ==
  \/ CopyTop
  \/ CopyFile
  \/ CopyFilesEnd
  \/ CopyOpenFolders
  \/ CopySub
  \/ CopyFoldersEnd
  \/ CopyFinish

CopyPause ==
  \/ CopyFilesPause
  \/ CopyFoldersPause

CopyFault ==
  \/ CopyAccessFail
  \/ CopyFileIterFail
  \/ CopyFileFail
  \/ CopyFilesHasNextFail
  \/ CopyFolderIterFail
  \/ CopySubFail
  \/ CopyFoldersHasNextFail
  \/ CopyFatal

VerifyRun ==
  \/ VerifyTop
  \/ VerifyFile
  \/ VerifyFilesEnd
  \/ VerifyOpenFolders
  \/ VerifySub
  \/ VerifyFoldersEnd
  \/ VerifyFinish

VerifyPause ==
  \/ VerifyFilesPause
  \/ VerifyFoldersPause

CopyStale ==
  \/ CopyFileTokenStale
  \/ CopyFolderTokenStale

VerifyStale ==
  \/ VerifyFileTokenStale
  \/ VerifyFolderTokenStale

VerifyFault ==
  \/ VerifyAccessFail
  \/ VerifyFileIterFail
  \/ VerifyFileFail
  \/ VerifyFilesHasNextFail
  \/ VerifyFolderIterFail
  \/ VerifySubFail
  \/ VerifyFoldersHasNextFail
  \/ VerifyFatal

\* the whole system; the only remote failures are a source folder that
\* cannot be opened at job start and tokens rejected on resume
Next ==
  \/ StartCopy
  \/ TriggerFires
  \/ \E r \in Rows : VerifyCopy(r)
  \/ ResetMemory
  \/ Expire
  \/ TokensExpire
  \/ CopyRun
  \/ CopyPause
  \/ CopyStale
  \/ VerifyRun
  \/ VerifyPause
  \/ VerifyStale

Spec == Init /\ [][Next]_vars

\* executions that never reach the time limit, with remote failures
NextFaults ==
  \/ StartCopy
  \/ \E r \in Rows : VerifyCopy(r)
  \/ CopyRun
  \/ CopyFault
  \/ VerifyRun
  \/ VerifyFault

SpecFaults == Init /\ [][NextFaults]_vars

\* ------------------------------------------------------------------------
\* An execution of processQueue that is never interrupted, as a function:
\* the loop of lines 138-271 run on a queue until the queue is empty
\* ------------------------------------------------------------------------
RECURSIVE RunFiles(_, _, _, _)
\* the FILES loop from the i-th file on
RunFiles(drive, d, files, i) ==
  IF i > Len(files)
  THEN drive
  ELSE RunFiles(CopyIfAbsent(drive, d, files[i]), d, files, i + 1)

RECURSIVE RunFolders(_, _, _, _, _)
\* the FOLDERS loop from the i-th subfolder on
RunFolders(drive, q, d, kids, i) ==
  IF i > Len(kids)
  THEN [drive |-> drive, queue |-> q]
  ELSE LET dSub == FindOrCreate(drive, d, SrcName(kids[i]))
       IN RunFolders(dSub.drive, Append(q, Task(kids[i], dSub.id)), d, kids,
                     i + 1)

RECURSIVE RunQueue(_, _, _)
RunQueue(drive, q, n) ==
  IF q = <<>>
  THEN [dest |-> drive, totalCopied |-> n]
  ELSE LET t == q[1]
           d1 == RunFiles(drive, t.destId, SrcFiles(t.sourceId), 1)
           r == RunFolders(d1, q, t.destId, SrcKids(t.sourceId), 1)
       IN RunQueue(r.drive, Tail(r.queue), n + Len(SrcFiles(t.sourceId)))

\* setupJob and processQueue on the row of source s, from the Drive `drive`
RunJob(drive, s) ==
  RunQueue(CreateFolder(drive, 0, SrcName(s) \o " duplicate"),
           <<Task(s, Len(drive) + 1)>>, 0)

\* ------------------------------------------------------------------------
\* One Copy job whose executions each get at least one step done before the
\* time limit, and whose scheduled resumes do run
\* ------------------------------------------------------------------------
\* TIME_LIMIT_MS is 5.5 minutes: the limit is not reached before the
\* execution has changed the state it started from
LiveExpire ==
  /\ Expire
  /\ \/ queue # LoadState.queue
     \/ totalCopied # LoadState.totalCopied

NextLive ==
  \/ StartCopy
  \/ TriggerFires
  \/ LiveExpire
  \/ CopyRun
  \/ CopyPause

LiveSpec ==
  /\ Init
  /\ [][NextLive]_vars
  /\ WF_vars(CopyRun \/ CopyPause)
  /\ WF_vars(TriggerFires)

\* ------------------------------------------------------------------------
\* Claims
\* ------------------------------------------------------------------------
\* the job of row 2 has ended as an uninterrupted run of it ends
C1_Terminal ==
  /\ walker = "none"
  /\ rows[2].status.tag = "Done"
  /\ ck = NoCk
  /\ triggers = 0
  /\ dest = RunJob(<<>>, RootId).dest

\* C1: with valid tokens and every scheduled resume eventually run, a Copy
\* job in execution, paused any number of times at any file or subfolder,
\* eventually reaches the terminal state (queue empty, status 'Done',
\* checkpoint cleared, no resume pending) with the destination tree of an
\* uninterrupted run
C1_Resumability == (walker = "copy") ~> C1_Terminal

\* the terminal state reached by a job that has been paused on its way
C1_Witness == C1_Terminal /\ interrupted

\* the number of files of the source tree
RECURSIVE CountFiles(_)
CountFiles(f) ==
  IF f = 0 THEN 0 ELSE Len(Trees[tree].files[f]) + CountFiles(f - 1)

TotalFiles == CountFiles(Len(Trees[tree].name))

\* the types of the rows of the log
LogTypes == {log[i].type : i \in 1 .. Len(log)}

\* no destination folder holds two files of one name
NoFileTwice ==
  \A d \in 1 .. Len(dest) :
    \A i, j \in 1 .. Len(dest[d].files) :
      dest[d].files[i] = dest[d].files[j] => i = j

\* no two destination folders of one name in one parent
NoFolderTwice ==
  \A i, j \in 1 .. Len(dest) :
    (dest[i].parent = dest[j].parent /\ dest[i].name = dest[j].name) => i = j

\* C2: a Copy job whose only failures were mid-run fatal errors followed by a
\* resume reports in its 'Done' status the number of files of the source
\* tree, and no file has been copied twice
C2_CounterConvergence ==
  \A r \in Rows :
    (rows[r].status.tag = "Done" /\ LogTypes \subseteq {"CRITICAL", "INFO"})
      => (rows[r].status.n = TotalFiles /\ NoFileTwice)

\* two job rows over the same source tree: the Copy job is run twice
InitTwice == InitWith(Sheet(2))

NextTwice ==
  \/ StartCopy
  \/ TriggerFires
  \/ Expire
  \/ CopyRun
  \/ CopyPause

SpecTwice == InitTwice /\ [][NextTwice]_vars

\* C3: once the first run of the Copy job is done, the destination is and
\* stays the tree of one run, through a second run over the same source; no
\* second folder or file with an existing name is created at any level,
\* the root destination folder included
C3_Idempotence ==
  rows[2].status.tag = "Done"
    => (dest = RunJob(<<>>, RootId).dest /\ NoFolderTwice /\ NoFileTwice)

\* the head task is about to be resumed with a token the backend rejects
StaleResume(stage) ==
  /\ walker # "none"
  /\ queue # <<>>
  /\ staleTok
  /\ currentItem.stage = stage
  /\ IF stage = "FILES"
     THEN pc = "top" /\ currentItem.fileToken # NoToken
     ELSE pc = "fstage" /\ currentItem.folderToken # NoToken

\* C4: a task resumed with a token that the paging call rejects restarts the
\* enumeration of its stage from the beginning: it stays in the queue, in the
\* same stage, without token
C4_StaleCursorRecovery ==
  [][ \A stage \in {"FILES", "FOLDERS"} :
        (StaleResume(stage) /\ queue' # queue)
          => queue' = [queue EXCEPT ![1].fileToken = NoToken,
                                    ![1].folderToken = NoToken] ]_vars

\* C5: at each of its check points (before a file, before a subfolder, at the
\* end of the FILES stage and at the end of the FOLDERS stage) a walker whose
\* time budget has expired suspends; it goes on to no further stage or task
C5_BudgetCheckPoints ==
  [][ (walker # "none" /\ expired /\ pc \in {"files", "folders"})
        => (walker' = "none" /\ last' = "paused") ]_vars

\* C6: when a walker returns on budget expiry, the checkpoint holds the
\* in-memory queue with the token of the first item not yet handed out on
\* the head task and the in-memory counters, and exactly one resume is
\* pending
C6_SuspensionProtocol ==
  [][ (walker # "none" /\ last' = "paused")
        => /\ LoadStateOf(ck').queue =
                IF pc = "files"
                THEN [queue EXCEPT ![1].fileToken = it]
                ELSE [queue EXCEPT ![1].folderToken = it]
           /\ LoadStateOf(ck').totalCopied = totalCopied
           /\ LoadStateOf(ck').checked = checked
           /\ LoadStateOf(ck').mismatches = mismatches
           /\ triggers' = 1 ]_vars

\* the status cell the walker in execution reports in
StatusCell(rws) ==
  IF walker = "verify" THEN rws[row].verif ELSE rws[row].status

\* C7: a walker that finds its queue empty writes the 'Done' status, clears
\* the checkpoint and cancels the pending resumes; after a completion there
\* is no persisted checkpoint and no pending resume trigger
C7_CompletionPostcondition ==
  /\ [][ (walker # "none" /\ pc = "top" /\ queue = <<>> /\ walker' = "none")
           => /\ StatusCell(rows').tag = "Done"
              /\ ~ck'.prop
              /\ triggers' = 0 ]_vars
  /\ [](last = "done" => (LoadState.type = "NONE" /\ triggers = 0))

\* a job that was paused, with a resume still pending when it was taken up
\* again, has completed
C7_Witness ==
  /\ last = "done"
  /\ interrupted
  /\ \E r \in Rows : rows[r].status.tag = "Done" \/ rows[r].verif.tag = "Done"

\* C8: the handler of a mid-run fatal error sets the status to 'Error: ...',
\* appends a CRITICAL log row and saves the in-memory queue and counters
C8_MidRunFatal ==
  [][ (walker # "none" /\ last' = "fatal")
        => /\ StatusCell(rows').tag = "Error"
           /\ Len(log') = Len(log) + 1
           /\ log'[Len(log')].type = "CRITICAL"
           /\ LoadStateOf(ck').queue = queue
           /\ LoadStateOf(ck').totalCopied = totalCopied
           /\ LoadStateOf(ck').checked = checked
           /\ LoadStateOf(ck').mismatches = mismatches ]_vars

\* what a Verify job of source folder s against destination folder d has to
\* report: files of the visited folders, and missing files and subfolders
RECURSIVE ExpectedVerify(_, _, _)
RECURSIVE ExpectedKids(_, _, _, _)
ExpectedKids(drive, s, d, i) ==
  IF i > Len(SrcKids(s))
  THEN NoCounters
  ELSE LET match == FoldersByName(drive, d, SrcName(SrcKids(s)[i]))
           one == IF match = {}
                  THEN [checked |-> 0, mismatches |-> 1]
                  ELSE ExpectedVerify(drive, SrcKids(s)[i], Min(match))
           rest == ExpectedKids(drive, s, d, i + 1)
       IN [checked |-> one.checked + rest.checked,
           mismatches |-> one.mismatches + rest.mismatches]

ExpectedVerify(drive, s, d) ==
  LET files == SrcFiles(s)
      missing == {i \in 1 .. Len(files) : ~HasFile(drive, d, files[i])}
      below == ExpectedKids(drive, s, d, 1)
  IN [checked |-> Len(files) + below.checked,
      mismatches |-> Cardinality(missing) + below.mismatches]

\* C9: a completed Verify job (no listing failure on its way) reports the
\* number of source files of the folders it visits as checked, and the
\* number of missing files plus missing subfolders as mismatches
C9_VerifyCorrectness ==
  \A r \in Rows :
    (rows[r].verif.tag = "Done" /\ "WARN" \notin LogTypes)
      => LET e == ExpectedVerify(dest, rows[r].src, rows[r].url)
         IN rows[r].verif.n = e.checked /\ rows[r].verif.m = e.mismatches

\* C10: verifyCopy invoked while a checkpoint exists changes neither the
\* checkpoint, the sheet, the log, the triggers nor the Drive, and runs no
\* walker
C10_BusyConflict ==
  [][ ((\E r \in Rows : VerifyCopy(r)) /\ LoadState.type # "NONE")
        => UNCHANGED <<ck, rows, log, triggers, dest, walkVars>> ]_vars

\* verifyCopy has just been rejected, with a job in the checkpoint
C10_Witness == last = "busy" /\ LoadState.type # "NONE"

\* ------------------------------------------------------------------------
\* Job lists: every row names the source root, a folder that cannot be
\* opened or nothing, with an empty, 'Pending', 'Done', 'Error' or
\* 'Pausing' status
\* ------------------------------------------------------------------------
JobRows ==
  [src : {0, RootId, BadId},
   status : {Blank, Cell("Pending", 0), Cell("Done", 0), Cell("Error", 0),
             Cell("Pausing", 0)},
   url : {0}, verif : {Blank}]

InitJobs == \E sheet \in [Rows -> JobRows] : InitWith(sheet)

\* startCopy invoked again and again, each execution running to its end
NextJobs ==
  \/ StartCopy
  \/ CopyRun

SpecJobs == InitJobs /\ [][NextJobs]_vars

\* the rows startCopy may select
Candidates ==
  {r \in Rows : rows[r].src # 0 /\ rows[r].status.tag \in {"", "Pending"}}

\* C11: when the source folder of the selected job row cannot be opened at
\* job start, the invocation ends in setupJob's failure branch: the row's
\* status becomes 'Error: ...' and nothing else changes in the sheet, no
\* checkpoint is persisted, no destination folder is created, no resume is
\* scheduled and no walker runs
C11_SetupFailure ==
  /\ [][ (StartCopy /\ LoadState.type = "NONE" /\ Candidates # {}
            /\ rows[Min(Candidates)].src \notin SrcFolders)
           => last' = "setupfail" ]_vars
  /\ [][ (walker = "none" /\ last' = "setupfail")
           => /\ Candidates # {}
              /\ rows' = [rows EXCEPT
                            ![Min(Candidates)].status = Cell("Error", 0)]
              /\ LoadStateOf(ck').type = "NONE"
              /\ dest' = dest
              /\ triggers' <= triggers
              /\ log' = log
              /\ walker' = "none" ]_vars

\* setupJob has failed on a row whose source folder cannot be opened, after
\* an earlier job of the list was run
C11_Witness ==
  /\ last = "setupfail"
  /\ dest # <<>>
  /\ \E r \in Rows : rows[r].src = BadId /\ rows[r].status.tag = "Error"

\* ------------------------------------------------------------------------
\* Jobs that are paused, Copy jobs hit by a fatal error, and resets
\* ------------------------------------------------------------------------
NextReset ==
  \/ StartCopy
  \/ TriggerFires
  \/ \E r \in Rows : VerifyCopy(r)
  \/ ResetMemory
  \/ Expire
  \/ CopyRun
  \/ CopyPause
  \/ CopyFatal
  \/ VerifyRun
  \/ VerifyPause

SpecReset == Init /\ [][NextReset]_vars

\* C12: a reset, whatever the state it is invoked in, leaves no checkpoint
\* and no pending resume and changes neither the destination nor the sheet;
\* with no checkpoint, a later invocation runs a walker only on a job it
\* starts afresh (a row not started before, or a verification from the
\* root), never on the queue of the abandoned job
C12_Reset ==
  /\ [][ ResetMemory
           => /\ ~ck'.prop
              /\ LoadStateOf(ck').type = "NONE"
              /\ triggers' = 0
              /\ dest' = dest
              /\ rows' = rows
              /\ walker' = "none" ]_vars
  /\ [](last = "reset" => (LoadState.type = "NONE" /\ triggers = 0))
  /\ [][ (walker = "none" /\ LoadState.type = "NONE" /\ walker' = "copy")
           => /\ rows[row'].status.tag \in {"", "Pending"}
              /\ queue' = <<Task(rows[row'].src, Len(dest) + 1)>>
              /\ totalCopied' = 0 ]_vars
  /\ [][ (walker = "none" /\ LoadState.type = "NONE" /\ walker' = "verify")
           => /\ queue' = <<Task(rows[row'].src, rows[row'].url)>>
              /\ checked' = 0
              /\ mismatches' = 0 ]_vars

\* a job paused with files copied was reset, and the invocation that
\* followed found nothing to resume
C12_Witness ==
  /\ last = "nojob"
  /\ rows[2].status.tag = "Pausing"
  /\ dest # <<>>
  /\ \E d \in 1 .. Len(dest) : dest[d].files # <<>>

\* ------------------------------------------------------------------------
\* One Copy job started fresh, paused and resumed at will, no remote failure
\* ------------------------------------------------------------------------
SpecCopy == Init /\ [][NextTwice]_vars

\* the subfolders of destination folder d
DestKids(d) == {i \in 1 .. Len(dest) : dest[i].parent = d}

\* destination folder d mirrors source folder s: same name but for the root,
\* as many files, as many subfolders, and a mirror of every source subfolder
\* under its name
RECURSIVE Mirrors(_, _)
Mirrors(s, d) ==
  /\ Len(dest[d].files) = Len(SrcFiles(s))
  /\ Cardinality(DestKids(d)) = Len(SrcKids(s))
  /\ {dest[i].name : i \in DestKids(d)}
       = {SrcName(SrcKids(s)[k]) : k \in 1 .. Len(SrcKids(s))}
  /\ \A k \in 1 .. Len(SrcKids(s)) :
       \E i \in DestKids(d) :
         dest[i].name = SrcName(SrcKids(s)[k]) /\ Mirrors(SrcKids(s)[k], i)

\* C13: when the Copy job of a source tree copied fresh with no remote
\* failure is 'Done', the destination root is named '<source name>
\* duplicate', it mirrors the source tree folder by folder, and the reported
\* count is the number of source files
C13_MirroredCopy ==
  rows[2].status.tag = "Done"
    => /\ dest[rows[2].url].name = SrcName(RootId) \o " duplicate"
       /\ Mirrors(RootId, rows[2].url)
       /\ rows[2].status.n = TotalFiles

\* the source folders in the order an uninterrupted processQueue takes them
\* up: the head is taken, its subfolders are pushed at the tail (line 261),
\* the head is shifted (line 269)
RECURSIVE BfsFrom(_)
BfsFrom(q) ==
  IF q = <<>> THEN <<>> ELSE <<q[1]>> \o BfsFrom(Tail(q) \o SrcKids(q[1]))

BfsOrder == BfsFrom(<<RootId>>)

BfsPos(f) == CHOOSE i \in 1 .. Len(BfsOrder) : BfsOrder[i] = f

\* the source folder that lists f among its subfolders
ParentOf(f) ==
  CHOOSE p \in SrcFolders : \E k \in 1 .. Len(SrcKids(p)) : SrcKids(p)[k] = f

QueueIds(q) == [k \in 1 .. Len(q) |-> q[k].sourceId]

\* the queue q of a Copy job over the destination `drive` is in order
QueueInOrder(drive, q) ==
  q # <<>> =>
    LET head == q[1]
        i == BfsPos(head.sourceId)
        j == i + Len(q) - 1
        kids == SrcKids(head.sourceId)
        files == SrcFiles(head.sourceId)
    IN \* the tasks are a run of consecutive folders of the order
       /\ head.sourceId \in SrcFolders
       /\ j <= Len(BfsOrder)
       /\ QueueIds(q) = SubSeq(BfsOrder, i, j)
       \* no subfolder of the head is known while its files are processed
       /\ head.stage = "FILES"
            => \A k \in 1 .. Len(kids) : BfsPos(kids[k]) > j
       \* every file of the head is done once the subfolders are listed
       /\ head.stage = "FOLDERS"
            => \A f \in 1 .. Len(files) : HasFile(drive, head.destId, files[f])
       \* the subfolders of the head's parent were all enqueued
       /\ head.sourceId # RootId
            => LET sib == SrcKids(ParentOf(head.sourceId))
               IN \A k \in 1 .. Len(sib) : BfsPos(sib[k]) <= j

\* C14: in a Copy job without remote failure, paused and resumed or not, the
\* queue in memory and the queue in the checkpoint are always a run of
\* consecutive folders of the breadth-first order, the subfolders of the head
\* are unknown until all its files are done, all subfolders of a task are in
\* the queue when the first of them is the head, and every change of the
\* destination is made for the head task
C14_QueueOrdering ==
  /\ [](walker = "copy" => QueueInOrder(dest, queue))
  /\ [](LoadState.type = "COPY" => QueueInOrder(dest, LoadState.queue))
  /\ [][ (walker = "copy" /\ dest' # dest)
           => \/ /\ currentItem.stage = "FILES"
                 /\ \E f \in 1 .. Len(SrcFiles(currentItem.sourceId)) :
                      dest' = MakeCopy(dest, currentItem.destId,
                                       SrcFiles(currentItem.sourceId)[f])
              \/ /\ currentItem.stage = "FOLDERS"
                 /\ \E k \in 1 .. Len(SrcKids(currentItem.sourceId)) :
                      dest' = CreateFolder(dest, currentItem.destId,
                                SrcName(SrcKids(currentItem.sourceId)[k])) ]_vars

\* a resumed job processes a subfolder task while its sibling waits behind it
C14_Witness ==
  /\ walker = "copy"
  /\ interrupted
  /\ pc = "files"
  /\ Len(queue) >= 2
  /\ currentItem.sourceId # RootId
  /\ ParentOf(queue[2].sourceId) = ParentOf(currentItem.sourceId)

\* ------------------------------------------------------------------------
\* Two job rows, Copy and Verify jobs paused and resumed, and an operator
\* who may mark the job of the checkpoint 'Done' by hand
\* ------------------------------------------------------------------------
NextDispatch ==
  \/ StartCopy
  \/ TriggerFires
  \/ \E r \in Rows : VerifyCopy(r)
  \/ MarkDone
  \/ Expire
  \/ CopyRun
  \/ CopyPause
  \/ VerifyRun
  \/ VerifyPause

SpecDispatch == InitTwice /\ [][NextDispatch]_vars

\* the status cell of the job in the checkpoint starts with 'Done'
MarkedDone ==
  IF LoadState.type = "VERIFY"
  THEN rows[LoadState.rowIndex].verif.tag = "Done"
  ELSE rows[LoadState.rowIndex].status.tag = "Done"

\* C15: startCopy invoked with a checkpoint whose row is not 'Done' runs the
\* walker of the checkpoint's kind on the persisted queue and counters and
\* neither touches another row, the checkpoint or the Drive; with the row
\* 'Done' the checkpoint is cleared, and a job is searched (and the first
\* candidate set up) for a Copy checkpoint only: for a Verify checkpoint the
\* invocation ends there
C15_Dispatch ==
  [][ (walker = "none" /\ LoadState.type # "NONE"
         /\ (StartCopy \/ TriggerFires))
        => IF ~MarkedDone
           THEN /\ walker' = IF LoadState.type = "VERIFY"
                             THEN "verify" ELSE "copy"
                /\ queue' = LoadState.queue
                /\ row' = LoadState.rowIndex
                /\ totalCopied' = LoadState.totalCopied
                /\ checked' = LoadState.checked
                /\ mismatches' = LoadState.mismatches
                /\ ck' = ck
                /\ dest' = dest
                /\ \A r \in Rows \ {LoadState.rowIndex} : rows'[r] = rows[r]
           ELSE IF LoadState.type = "VERIFY"
                THEN /\ walker' = "none"
                     /\ ck' = NoCk
                     /\ rows' = rows
                     /\ dest' = dest
                ELSE IF Candidates = {}
                     THEN /\ walker' = "none"
                          /\ ck' = NoCk
                          /\ rows' = rows
                          /\ dest' = dest
                     ELSE \/ /\ walker' = "copy"
                             /\ row' = Min(Candidates)
                             /\ queue' = <<Task(rows[row'].src, Len(dest) + 1)>>
                             /\ LoadStateOf(ck').queue = queue'
                          \/ /\ walker' = "none"
                             /\ ck' = NoCk
                             /\ rows'[Min(Candidates)].status.tag = "Error"
    ]_vars

\* a Verify checkpoint whose row was marked 'Done' has been cleared, and the
\* pending job of the list has not been started
C15_Witness ==
  /\ last = "cleared"
  /\ LoadState.type = "NONE"
  /\ Candidates # {}

\* a listing call of the walker in execution fails in this step
ListingFails ==
  \/ CopyFileIterFail
  \/ CopyFilesHasNextFail
  \/ CopyFolderIterFail
  \/ CopyFoldersHasNextFail
  \/ VerifyFileIterFail
  \/ VerifyFilesHasNextFail
  \/ VerifyFolderIterFail
  \/ VerifyFoldersHasNextFail

\* this step appends a WARN row to the log
WarnLogged ==
  /\ Len(log') = Len(log) + 1
  /\ log'[Len(log')].type = "WARN"
  /\ SubSeq(log', 1, Len(log)) = log

\* C16: in either walker every listing failure appends a WARN row, and a step
\* that does so in the FILES stage moves the head task to FOLDERS without
\* file token and leaves the other tasks alone, in the FOLDERS stage removes
\* the head task and keeps every other task (the children enqueued so far
\* included); the walker stays in execution, and status, checkpoint and
\* Drive are unchanged
C16_EnumerationFailure ==
  /\ [][ ListingFails => WarnLogged ]_vars
  /\ [][ (walker # "none" /\ WarnLogged)
           => /\ queue # <<>>
              /\ IF currentItem.stage = "FILES"
                 THEN queue' = [queue EXCEPT ![1].stage = "FOLDERS",
                                             ![1].fileToken = NoToken]
                 ELSE queue' = Tail(queue)
              /\ walker' = walker
              /\ pc' \in {"top", "fstage"}
              /\ UNCHANGED <<rows, ck, dest, triggers, totalCopied, checked,
                             mismatches>> ]_vars

\* source R{f1, E1, E2}: the folder listing of R failed after E1 was
\* enqueued; E1 was kept and processed, E2 was dropped, and the job is done
C16_Witness ==
  /\ tree = 2
  /\ last = "done"
  /\ rows[2].status.tag = "Done"
  /\ LogTypes = {"WARN", "INFO"}
  /\ \E i \in 1 .. Len(log) : log[i].name = "Folder Iterator"
  /\ Len(dest) = 2
  /\ dest[2].name = "E1"

\* a step of the walker in execution that changes its queue
QueueStep == walker # "none" /\ walker' = walker /\ queue' # queue

\* the head task is still the head, with its stage or tokens changed
HeadUpdated ==
  /\ Len(queue') = Len(queue)
  /\ Tail(queue') = Tail(queue)
  /\ queue'[1].sourceId = currentItem.sourceId
  /\ queue'[1].destId = currentItem.destId

\* a task for a subfolder of the head is appended at the tail
ChildAppended ==
  /\ Len(queue') = Len(queue) + 1
  /\ SubSeq(queue', 1, Len(queue)) = queue
  /\ \E k \in 1 .. Len(SrcKids(currentItem.sourceId)) :
       queue'[Len(queue')].sourceId = SrcKids(currentItem.sourceId)[k]

HeadRemoved == queue' = Tail(queue)

\* this step appends the ERROR row of the access handler (lines 151, 420)
AccessErrorLogged ==
  /\ Len(log') = Len(log) + 1
  /\ log'[Len(log')].type = "ERROR"
  /\ log'[Len(log')].name \in {"Access", "Access-Verify"}

TaskDestExists(t, r) ==
  /\ t.destId \in 1 .. Len(dest)
  /\ IF t.sourceId = rows[r].src
     THEN /\ t.destId = rows[r].url
          /\ dest[t.destId].parent = 0
     ELSE /\ dest[t.destId].name = SrcName(t.sourceId)
          /\ dest[t.destId].parent \in 1 .. Len(dest)
          /\ dest[dest[t.destId].parent].name
               \in {SrcName(ParentOf(t.sourceId)),
                    SrcName(ParentOf(t.sourceId)) \o " duplicate"}

\* this step appends a MISSING_DIR row to the log
MissingDirLogged ==
  /\ Len(log') = Len(log) + 1
  /\ log'[Len(log')].type = "MISSING_DIR"

\* C18: every task of the queue in memory and of the queue in the checkpoint
\* names a destination folder that exists, of the right name and inside the
\* parent's destination folder; a step in which the find-or-create of a
\* subfolder fails, or in which Verify finds a subfolder missing, enqueues
\* nothing
C18_TaskDestination ==
  /\ [](walker # "none"
          => \A k \in 1 .. Len(queue) : TaskDestExists(queue[k], row))
  /\ [](LoadState.type # "NONE"
          => \A k \in 1 .. Len(LoadState.queue) :
               TaskDestExists(LoadState.queue[k], LoadState.rowIndex))
  /\ [][ (CopySubFail \/ VerifySubFail) => queue' = queue ]_vars
  /\ [][ (walker = "verify" /\ MissingDirLogged) => queue' = queue ]_vars

\* after a Copy job in which the find-or-create of a subfolder failed, a
\* Verify job has found that subfolder missing and works on its sibling
C18_Witness ==
  /\ walker = "verify"
  /\ "ERROR" \in LogTypes
  /\ "MISSING_DIR" \in LogTypes
  /\ queue # <<>>
  /\ currentItem.sourceId # RootId

\* the tasks of q are in the states the stage machine allows: only the head
\* has been started, a file token goes with stage FILES and a folder token
\* with stage FOLDERS
StagesAndTokens(q) ==
  \A k \in 1 .. Len(q) :
    /\ q[k].stage \in {"FILES", "FOLDERS"}
    /\ k > 1 => /\ q[k].stage = "FILES"
                /\ q[k].fileToken = NoToken
                /\ q[k].folderToken = NoToken
    /\ q[k].fileToken # NoToken => q[k].stage = "FILES"
    /\ q[k].folderToken # NoToken => q[k].stage = "FOLDERS"

\* q2 is a later queue of the job of q1 with the same head task
SameHead(q1, q2) ==
  /\ q1 # <<>>
  /\ Len(q2) >= Len(q1)
  /\ q2[1].sourceId = q1[1].sourceId
  /\ q2[1].destId = q1[1].destId

\* the stage of the head moved, if at all, from FILES to FOLDERS, and the
\* file token went with the move
StageForward(q1, q2) ==
  /\ q1[1].stage = "FOLDERS" => q2[1].stage = "FOLDERS"
  /\ (q1[1].stage = "FILES" /\ q2[1].stage = "FOLDERS")
       => q2[1].fileToken = NoToken

VerifyJobStep == walker = "verify" \/ \E r \in Rows : VerifyCopy(r)

\* of the sheet, at most the verification cells change
OnlyVerificationCells ==
  \A r \in Rows :
    /\ rows'[r].src = rows[r].src
    /\ rows'[r].status = rows[r].status
    /\ rows'[r].url = rows[r].url

\* C20 as stated: in every step of a Verify job the source tree and the
\* destination tree are unchanged, and nothing changes but the counters,
\* the queue, the checkpoint, the log and the verification status
C20_VerifyFrame_AsStated ==
  [][ VerifyJobStep
        => /\ dest' = dest
           /\ tree' = tree
           /\ OnlyVerificationCells
           /\ triggers' = triggers ]_vars

\* C20, amended: in every step of a Verify job the source tree and the
\* destination tree are unchanged, and of the sheet only the verification
\* cells change; besides the counters, the queue, the checkpoint and the
\* log, the pending resume changes too: a pause leaves exactly one resume
\* pending and a completion none, and no other step touches it
C20_VerifyFrame ==
  [][ VerifyJobStep
        => /\ dest' = dest
           /\ tree' = tree
           /\ OnlyVerificationCells
           /\ triggers' # triggers
                => \/ last' = "paused" /\ triggers' = 1
                   \/ last' = "done" /\ triggers' = 0 ]_vars

\* a Verify job that has found a file or a subfolder missing is paused,
\* with its resume pending
C20_Witness ==
  /\ walker = "none"
  /\ last = "paused"
  /\ LoadState.type = "VERIFY"
  /\ triggers = 1
  /\ LogTypes \cap {"MISSING", "MISSING_DIR"} # {}

\* C21: a Verify walker that suspends on budget expiry saves the checked and
\* mismatches values it has reached, a resume continues from the persisted
\* values, and so the report of a completed Verify job that was paused and
\* resumed (no listing failure on its way) is the report of an
\* uninterrupted run over the same trees
C21_VerifyCounters ==
  /\ [][ (walker = "verify" /\ last' = "paused")
           => /\ LoadStateOf(ck').type = "VERIFY"
              /\ LoadStateOf(ck').checked = checked
              /\ LoadStateOf(ck').mismatches = mismatches ]_vars
  /\ [][ (walker = "none" /\ walker' = "verify" /\ LoadState.type = "VERIFY")
           => /\ checked' = LoadState.checked
              /\ mismatches' = LoadState.mismatches ]_vars
  /\ [](\A r \in Rows :
          (rows[r].verif.tag = "Done" /\ interrupted
             /\ "WARN" \notin LogTypes)
            => LET e == ExpectedVerify(dest, rows[r].src, rows[r].url)
               IN /\ rows[r].verif.n = e.checked
                  /\ rows[r].verif.m = e.mismatches)

\* the handling of one file or one subfolder fails in this step
ItemFails ==
  \/ CopyFileFail
  \/ VerifyFileFail
  \/ CopySubFail
  \/ VerifySubFail

\* this step appends the ERROR row of a per-item handler
ItemErrorLogged ==
  /\ Len(log') = Len(log) + 1
  /\ SubSeq(log', 1, Len(log)) = log
  /\ log'[Len(log')].type = "ERROR"
  /\ log'[Len(log')].name \notin {"Access", "Access-Verify"}

\* C22: the failure of one file copy, one existence check or one subfolder
\* find-or-create appends an ERROR row naming the item; the failed file is
\* counted as processed (totalCopied in Copy, checked in Verify), the failed
\* subfolder is not enqueued; queue, stage, Drive, checkpoint and status
\* tag are unchanged, and the walker stays in the same loop of the same
\* folder, one item further
C22_PerItemIsolation ==
  /\ [][ ItemFails => ItemErrorLogged ]_vars
  /\ [][ (walker # "none" /\ ItemErrorLogged)
           => /\ queue' = queue
              /\ walker' = walker
              /\ pc' = pc
              /\ pc \in {"files", "folders"}
              /\ it' = it + 1
              /\ dest' = dest
              /\ ck' = ck
              /\ triggers' = triggers
              /\ StatusCell(rows').tag = StatusCell(rows).tag
              /\ mismatches' = mismatches
              /\ IF pc = "files"
                 THEN /\ log'[Len(log')].name
                           = SrcFiles(currentItem.sourceId)[it + 1]
                      /\ totalCopied' = totalCopied
                           + (IF walker = "copy" THEN 1 ELSE 0)
                      /\ checked' = checked
                           + (IF walker = "verify" THEN 1 ELSE 0)
                 ELSE /\ log'[Len(log')].name
                           = SrcName(SrcKids(currentItem.sourceId)[it + 1])
                      /\ totalCopied' = totalCopied
                      /\ checked' = checked ]_vars

\* source F{f1, f2, D1{f3}}: the copy of f1 failed, f2 and f3 were copied
\* after it, and the job is done with all three files counted
C22_Witness ==
  /\ tree = 1
  /\ last = "done"
  /\ rows[2].status.tag = "Done"
  /\ rows[2].status.n = 3
  /\ LogTypes = {"ERROR", "INFO"}
  /\ Len(dest) = 2
  /\ dest[1].files = <<"f2">>
  /\ dest[2].files = <<"f3">>

\* C23: at most one resume trigger is pending in every reachable state; a
\* step that leaves more triggers pending than before is a budget pause and
\* leaves exactly one, whatever number was pending before it
C23_SinglePendingResume ==
  /\ [](triggers \in {0, 1})
  /\ [][ triggers' > triggers => (last' = "paused" /\ triggers' = 1) ]_vars
  /\ [][ (walker # "none" /\ last' = "paused") => triggers' = 1 ]_vars

\* a Verify job is paused in its FOLDERS stage with one resume pending
C23_Witness ==
  /\ walker = "none"
  /\ last = "paused"
  /\ triggers = 1
  /\ LoadState.type = "VERIFY"
  /\ LoadState.queue[1].stage = "FOLDERS"

\* ------------------------------------------------------------------------
\* One job row, Copy jobs paused and resumed, and a state file that may be
\* deleted in Drive at any moment
\* ------------------------------------------------------------------------
NextStore ==
  \/ StartCopy
  \/ TriggerFires
  \/ StateFileDeleted
  \/ Expire
  \/ CopyRun
  \/ CopyPause

SpecStore == Init /\ [][NextStore]_vars

\* C24: a save is a full overwrite of the one slot (a load after it returns
\* the state saved, and a second save of it changes nothing); a save made
\* after the state file was deleted recreates the file with the state; and
\* an invocation of startCopy made after the state file of an in-flight job
\* was deleted still resumes that job, instead of treating it as no job
C24_CheckpointStore ==
  /\ [](LET s == CopyState(queue, row, totalCopied)
        IN /\ LoadStateOf(SaveState(s)) = s
           /\ SaveState(LoadStateOf(SaveState(s))) = SaveState(s))
  /\ [][ (walker # "none" /\ last' = "paused")
           => /\ ck'.prop
              /\ ck'.alive
              /\ LoadStateOf(ck') # Null ]_vars
  /\ [][ (walker = "none" /\ ck.prop /\ ~ck.alive /\ ck.data.type # "NONE"
            /\ rows[ck.data.rowIndex].status.tag # "Done"
            /\ (StartCopy \/ TriggerFires))
           => /\ walker' = "copy"
              /\ row' = ck.data.rowIndex ]_vars

\* C25: startCopy invoked with no checkpoint takes the first row, in row
\* order, with a source id and an empty or 'Pending' status: only that row
\* changes, and either its job is set up and its walker entered, or its set
\* up fails; the execution then touches no other row and starts no other
\* job; rows with any other status are not taken; with no such row the
\* invocation reports 'no pending jobs' and changes nothing
C25_JobSelection ==
  /\ [][ (walker = "none" /\ LoadState.type = "NONE"
            /\ (StartCopy \/ TriggerFires))
           => IF Candidates = {}
              THEN /\ last' = "nojob"
                   /\ UNCHANGED <<rows, log, dest, ck, walkVars>>
                   /\ triggers' <= triggers
              ELSE LET r == Min(Candidates)
                   IN /\ \A r2 \in Rows \ {r} : rows'[r2] = rows[r2]
                      /\ \/ /\ walker' = "copy"
                            /\ row' = r
                            /\ queue' = <<Task(rows[r].src, Len(dest) + 1)>>
                            /\ rows'[r].url = Len(dest) + 1
                            /\ LoadStateOf(ck').rowIndex = r
                         \/ /\ walker' = "none"
                            /\ last' = "setupfail"
                            /\ rows'[r].status.tag = "Error" ]_vars
  /\ [][ walker # "none"
           => /\ \A r2 \in Rows \ {row} : rows'[r2] = rows[r2]
              /\ walker' \in {walker, "none"}
              /\ walker' = walker => row' = row ]_vars

\* the first row is 'Pausing' with no checkpoint behind it and is passed
\* over: the job of the second row is in execution
C25_Witness ==
  /\ walker = "copy"
  /\ row = 3
  /\ rows[2].src = RootId
  /\ rows[2].status.tag = "Pausing"
  /\ rows[3].url # 0

\* no two tasks of q are for the same source folder
NoTaskTwice(q) ==
  \A i, j \in 1 .. Len(q) : q[i].sourceId = q[j].sourceId => i = j

\* C26: through budget pauses, fatal errors with the state saved by the
\* handler, and resumes, neither the queue in memory nor the queue in the
\* checkpoint ever holds two tasks for one source folder
C26_NoDuplicateTasks ==
  /\ NoTaskTwice(queue)
  /\ NoTaskTwice(LoadState.queue)

\* a step of the environment: the clock, the backend, the operator's edits
EnvironmentStep ==
  \/ Expire
  \/ TokensExpire
  \/ MarkDone
  \/ StateFileDeleted

\* C27: every step that ends an execution (of startCopy, verifyCopy or
\* resetMemory) with a resume pending leaves a checkpoint with a non-empty
\* queue to load, and every budget pause leaves both a checkpoint and a
\* pending resume
C27_ResumeImpliesCheckpoint ==
  /\ [][ (~EnvironmentStep /\ walker' = "none" /\ triggers' > 0)
           => (LoadStateOf(ck').type # "NONE"
               /\ LoadStateOf(ck').queue # <<>>) ]_vars
  /\ [][ (walker # "none" /\ last' = "paused")
           => (triggers' > 0 /\ LoadStateOf(ck').queue # <<>>) ]_vars

====
